---- MODULE Spec2Model ----
(***************************************************************************)
(* State-machine model of the melinjo side-scroller (src/game.js; the      *)
(* second variant, src/unnamed/part_000, has the same simulation code with *)
(* the jump logic inlined in its keydown handler).                         *)
(*                                                                         *)
(* Numbers.  The program computes in JavaScript doubles.  The model uses   *)
(* fixed point: every length, velocity and energy value is an integer      *)
(* number of 1/Unit (thousandths), so 0.6 is 600 and 100 is 100000.        *)
(* Math.random() is a draw r in 0..Unit-1 standing for the real r/Unit in  *)
(* [0,1).                                                                  *)
(*                                                                         *)
(* Clock.  Timestamps are integer milliseconds.  gameTime is in seconds;   *)
(* the program adds the quotient deltaTime / 1000 to it each frame, and    *)
(* 1/1000 is not a binary fraction, so every quotient is rounded (to 53    *)
(* significant bits in a double).  The model keeps gameTime in binary      *)
(* fixed point with TimeBits fractional bits and rounds each quotient to   *)
(* the nearest multiple of 2^-TimeBits s: the same kind of error as the    *)
(* double's, only coarser.                                                 *)
(***************************************************************************)
EXTENDS Integers, Sequences, FiniteSets, TLC

\* ------------------------------------------------------------------------
\* Fixed-point scale and program constants (src/game.js:2-12)
\* ------------------------------------------------------------------------
Unit == 1000

CANVAS_WIDTH == 800 * Unit
CANVAS_HEIGHT == 400 * Unit
GROUND_HEIGHT == 50 * Unit
GRAVITY == 600
JUMP_FORCE == -15 * Unit
FLYING_FORCE_MULTIPLIER == 500
ENERGY_MAX == 100 * Unit
ENERGY_JUMP_COST == 20 * Unit
ENERGY_REFILL_RATE == 300
GAME_DURATION == 30
SCROLL_SPEED == 5 * Unit

\* literals of the code that have no named constant
PLAYER_X == 100 * Unit
PLAYER_WIDTH == 50 * Unit
PLAYER_HEIGHT == 40 * Unit
MELINJO_SIZE == 20 * Unit
MELINJO_BONUS == 30 * Unit
LEVEL_START == 800 * Unit
FRAME_RATE == 60

\* ------------------------------------------------------------------------
\* Bounds of the model
\* ------------------------------------------------------------------------
\* One display frame in milliseconds: the step between two consecutive
\* animation-frame timestamps while the display keeps up.
FrameMs == 16
\* Frames are delivered one FrameMs apart up to this timestamp.
MaxSmoothTimestamp == 2400
\* Fractional bits of gameTime (see Clock above).
TimeBits == 20
\* Late timestamps: the host may deliver a frame after a long pause (hidden
\* tab); these are the timestamps such a late frame may carry.
LateTimestamps == {GAME_DURATION * 1000, GAME_DURATION * 1000 + FrameMs}
\* Jump input events arrive before the first frame or right after one of
\* these frames (any number of events in a row at each of these moments).
JumpFrames == {0, 6, 127, 128}
\* the values of lastTimestamp at which a jump input event may arrive: after
\* one of the JumpFrames, or after a late frame
JumpTimes == {f * FrameMs : f \in JumpFrames} \cup LateTimestamps

\* ------------------------------------------------------------------------
\* State
\* ------------------------------------------------------------------------
VARIABLES player, obstacles, melinjos, gameTime, gameActive, lastTimestamp,
          energy

vars == <<player, obstacles, melinjos, gameTime, gameActive, lastTimestamp,
          energy>>

\* ------------------------------------------------------------------------
\* Level generation
\* ------------------------------------------------------------------------
\* A random stream is a sequence of draws that is read cyclically; draw k of
\* a stream s is s[((k - 1) % Len(s)) + 1].
Draw(s, k) == s[((k - 1) % Len(s)) + 1]

\* r * n for a draw r standing for r/Unit
Scaled(r, n) == (r * n) \div Unit

totalDistance == SCROLL_SPEED * GAME_DURATION * FRAME_RATE

RECURSIVE ObstacleLoop(_, _, _, _)
ObstacleLoop(position, acc, s, k) ==
    IF position < totalDistance + LEVEL_START
    THEN LET d      == Draw(s, k)
             type   == (d.type * 2) \div Unit
             width  == IF type = 0 THEN 30 * Unit + Scaled(d.width, 20 * Unit)
                                   ELSE 60 * Unit + Scaled(d.width, 40 * Unit)
             height == IF type = 0 THEN 20 * Unit + Scaled(d.height, 30 * Unit)
                                   ELSE 20 * Unit
             o      == [x |-> position,
                        y |-> CANVAS_HEIGHT - GROUND_HEIGHT - height,
                        width |-> width, height |-> height, type |-> type,
                        passed |-> FALSE]
         IN  ObstacleLoop(position + 300 * Unit + Scaled(d.gap, 300 * Unit),
                          Append(acc, o), s, k + 1)
    ELSE acc

\* generateObstacles with the position starting at the left edge of the
\* screen instead of after the visible screen
generateObstacles_FromZero(s) == ObstacleLoop(0, << >>, s, 1)

generateObstacles(s) == ObstacleLoop(LEVEL_START, << >>, s, 1)

RECURSIVE MelinjoLoop(_, _, _, _)
MelinjoLoop(position, acc, s, k) ==
    IF position < totalDistance + LEVEL_START
    THEN LET d      == Draw(s, k)
             height == 100 * Unit + Scaled(d.height, 150 * Unit)
             m      == [x |-> position,
                        y |-> CANVAS_HEIGHT - GROUND_HEIGHT - height,
                        width |-> MELINJO_SIZE, height |-> MELINJO_SIZE,
                        collected |-> FALSE]
         IN  MelinjoLoop(position + 200 * Unit + Scaled(d.gap, 400 * Unit),
                         Append(acc, m), s, k + 1)
    ELSE acc

\* generation that lays every pickup on the ground line
generateMelinjos_OnGround(s) ==
    LET ms == MelinjoLoop(LEVEL_START, << >>, s, 1)
    IN  [i \in DOMAIN ms |->
            [ms[i] EXCEPT !.y = CANVAS_HEIGHT - GROUND_HEIGHT - MELINJO_SIZE]]

generateMelinjos(s) == MelinjoLoop(LEVEL_START, << >>, s, 1)

\* The random streams the model draws the level from.
ObstacleStreams ==
    { << [type |-> 0, width |-> 0, height |-> 999, gap |-> 999] >>,
      << [type |-> 0, width |-> 0, height |-> 273, gap |-> 999] >>,
      << [type |-> 999, width |-> 999, height |-> 0, gap |-> 999] >> }

MelinjoStreams ==
    { << [height |-> 0, gap |-> 999] >>,
      << [height |-> 999, gap |-> 999] >> }

\* ------------------------------------------------------------------------
\* Player
\* ------------------------------------------------------------------------
InitialPlayer ==
    [x |-> PLAYER_X,
     y |-> CANVAS_HEIGHT - GROUND_HEIGHT - PLAYER_HEIGHT,
     width |-> PLAYER_WIDTH, height |-> PLAYER_HEIGHT,
     velocityY |-> 0, isJumping |-> FALSE, jumpCount |-> 0]

\* the flying force computed after the increment of jumpCount
flyingForce_AfterIncrement(jumpCount) ==
    -(((-JUMP_FORCE) * FLYING_FORCE_MULTIPLIER) \div (Unit * (jumpCount + 1)))

\* JUMP_FORCE * FLYING_FORCE_MULTIPLIER / jumpCount, rounded toward zero to
\* the fixed-point grid (exact for jumpCount 1..6)
flyingForce(jumpCount) ==
    -(((-JUMP_FORCE) * FLYING_FORCE_MULTIPLIER) \div (Unit * jumpCount))

\* handleJump whose initial jump does not test the energy
handleJump_NoEnergyTest(p, e) ==
    IF ~p.isJumping
    THEN [player |-> [p EXCEPT !.velocityY = JUMP_FORCE,
                               !.isJumping = TRUE,
                               !.jumpCount = 1],
          energy |-> e - ENERGY_JUMP_COST]
    ELSE IF e >= ENERGY_JUMP_COST
         THEN [player |-> [p EXCEPT !.velocityY = flyingForce(p.jumpCount),
                                    !.jumpCount = p.jumpCount + 1],
               energy |-> e - ENERGY_JUMP_COST]
         ELSE [player |-> p, energy |-> e]

\* handleJump whose flying jump does not debit the energy
handleJump_FreeFlying(p, e) ==
    IF ~p.isJumping
    THEN IF e >= ENERGY_JUMP_COST
         THEN [player |-> [p EXCEPT !.velocityY = JUMP_FORCE,
                                    !.isJumping = TRUE,
                                    !.jumpCount = 1],
               energy |-> e - ENERGY_JUMP_COST]
         ELSE [player |-> p, energy |-> e]
    ELSE IF e >= ENERGY_JUMP_COST
         THEN [player |-> [p EXCEPT !.velocityY = flyingForce(p.jumpCount),
                                    !.jumpCount = p.jumpCount + 1],
               energy |-> e]
         ELSE [player |-> p, energy |-> e]

\* handleJump: the new player and energy
handleJump(p, e) ==
    IF ~p.isJumping
    THEN IF e >= ENERGY_JUMP_COST
         THEN [player |-> [p EXCEPT !.velocityY = JUMP_FORCE,
                                    !.isJumping = TRUE,
                                    !.jumpCount = 1],
               energy |-> e - ENERGY_JUMP_COST]
         ELSE [player |-> p, energy |-> e]
    ELSE IF e >= ENERGY_JUMP_COST
         THEN [player |-> [p EXCEPT !.velocityY = flyingForce(p.jumpCount),
                                    !.jumpCount = p.jumpCount + 1],
               energy |-> e - ENERGY_JUMP_COST]
         ELSE [player |-> p, energy |-> e]

groundY(p) == CANVAS_HEIGHT - GROUND_HEIGHT - p.height

\* updatePlayer whose landing does not reset jumpCount
updatePlayer_KeepCount(p) ==
    LET v == p.velocityY + GRAVITY
        y == p.y + v
    IN  IF y >= groundY(p)
        THEN [p EXCEPT !.y = groundY(p), !.velocityY = 0,
                       !.isJumping = FALSE]
        ELSE [p EXCEPT !.y = y, !.velocityY = v]

\* updatePlayer with > in place of >= in the ground test
updatePlayer_StrictGround(p) ==
    LET v == p.velocityY + GRAVITY
        y == p.y + v
    IN  IF y > groundY(p)
        THEN [p EXCEPT !.y = groundY(p), !.velocityY = 0,
                       !.isJumping = FALSE, !.jumpCount = 0]
        ELSE [p EXCEPT !.y = y, !.velocityY = v]

updatePlayer(p) ==
    LET v == p.velocityY + GRAVITY
        y == p.y + v
    IN  IF y >= groundY(p)
        THEN [p EXCEPT !.y = groundY(p), !.velocityY = 0,
                       !.isJumping = FALSE, !.jumpCount = 0]
        ELSE [p EXCEPT !.y = y, !.velocityY = v]

\* ------------------------------------------------------------------------
\* Scroll and energy
\* ------------------------------------------------------------------------
\* updateObstacles that leaves the obstacles marked passed where they are
updateObstacles_SkipPassed(obs) ==
    [i \in DOMAIN obs |->
        IF obs[i].passed THEN obs[i]
        ELSE [obs[i] EXCEPT !.x = obs[i].x - SCROLL_SPEED]]

updateObstacles(obs) ==
    [i \in DOMAIN obs |-> [obs[i] EXCEPT !.x = obs[i].x - SCROLL_SPEED]]

updateMelinjos(ms) ==
    [i \in DOMAIN ms |-> [ms[i] EXCEPT !.x = ms[i].x - SCROLL_SPEED]]

\* updateEnergy without the clamp to ENERGY_MAX
updateEnergy_NoClamp(e) ==
    IF e < ENERGY_MAX THEN e + ENERGY_REFILL_RATE ELSE e

updateEnergy(e) ==
    IF e < ENERGY_MAX
    THEN IF e + ENERGY_REFILL_RATE > ENERGY_MAX THEN ENERGY_MAX
                                                ELSE e + ENERGY_REFILL_RATE
    ELSE e

\* ------------------------------------------------------------------------
\* Collisions
\* ------------------------------------------------------------------------
\* an intersection test that never succeeds
Intersects_Never(p, b) == FALSE

\* the intersection test with a non-strict comparison on the player's right
\* edge
Intersects_TouchCounts(p, b) ==
    /\ p.x < b.x + b.width
    /\ p.x + p.width >= b.x
    /\ p.y < b.y + b.height
    /\ p.y + p.height > b.y

\* the four half-plane tests shared by the obstacle and the pickup check
Intersects(p, b) ==
    /\ p.x < b.x + b.width
    /\ p.x + p.width > b.x
    /\ p.y < b.y + b.height
    /\ p.y + p.height > b.y

\* the obstacle loop marking an obstacle passed as soon as its left edge is
\* behind the player's left edge
RECURSIVE CheckObstacles_PassedEarly(_, _, _)
CheckObstacles_PassedEarly(p, obs, i) ==
    IF i > Len(obs)
    THEN [obstacles |-> obs, hit |-> FALSE]
    ELSE IF ~obs[i].passed /\ Intersects(p, obs[i])
         THEN [obstacles |-> obs, hit |-> TRUE]
         ELSE IF obs[i].x < p.x /\ ~obs[i].passed
              THEN CheckObstacles_PassedEarly(
                       p, [obs EXCEPT ![i].passed = TRUE], i + 1)
              ELSE CheckObstacles_PassedEarly(p, obs, i + 1)

\* The obstacle loop of checkCollisions from index i on: the obstacles with
\* the passed flags it has set, and whether it returned on a collision.
RECURSIVE CheckObstacles(_, _, _)
CheckObstacles(p, obs, i) ==
    IF i > Len(obs)
    THEN [obstacles |-> obs, hit |-> FALSE]
    ELSE IF ~obs[i].passed /\ Intersects(p, obs[i])
         THEN [obstacles |-> obs, hit |-> TRUE]
         ELSE IF obs[i].x + obs[i].width < p.x /\ ~obs[i].passed
              THEN CheckObstacles(p, [obs EXCEPT ![i].passed = TRUE], i + 1)
              ELSE CheckObstacles(p, obs, i + 1)

\* the pickup loop without the test of the collected flag
RECURSIVE CheckMelinjos_Regrant(_, _, _, _)
CheckMelinjos_Regrant(p, ms, e, i) ==
    IF i > Len(ms)
    THEN [melinjos |-> ms, energy |-> e]
    ELSE IF Intersects(p, ms[i])
         THEN CheckMelinjos_Regrant(p, [ms EXCEPT ![i].collected = TRUE],
                                    IF e + MELINJO_BONUS > ENERGY_MAX
                                    THEN ENERGY_MAX ELSE e + MELINJO_BONUS,
                                    i + 1)
         ELSE CheckMelinjos_Regrant(p, ms, e, i + 1)

\* The pickup loop of checkCollisions from index i on.
RECURSIVE CheckMelinjos(_, _, _, _)
CheckMelinjos(p, ms, e, i) ==
    IF i > Len(ms)
    THEN [melinjos |-> ms, energy |-> e]
    ELSE IF ~ms[i].collected /\ Intersects(p, ms[i])
         THEN CheckMelinjos(p, [ms EXCEPT ![i].collected = TRUE],
                            IF e + MELINJO_BONUS > ENERGY_MAX
                            THEN ENERGY_MAX ELSE e + MELINJO_BONUS,
                            i + 1)
         ELSE CheckMelinjos(p, ms, e, i + 1)

\* checkCollisions with the fall-off test against the ground line instead
\* of the bottom of the canvas
checkCollisions_FallAtGround(p, obs, ms, e, active) ==
    LET o == CheckObstacles(p, obs, 1)
    IN  IF o.hit
        THEN [obstacles |-> o.obstacles, melinjos |-> ms, energy |-> e,
              gameActive |-> FALSE]
        ELSE LET m == CheckMelinjos(p, ms, e, 1)
             IN  [obstacles |-> o.obstacles, melinjos |-> m.melinjos,
                  energy |-> m.energy,
                  gameActive |-> IF p.y + p.height >
                                       CANVAS_HEIGHT - GROUND_HEIGHT - 1
                                 THEN FALSE ELSE active]

\* checkCollisions without the return on a collision: the pickup loop and
\* the fall-off check still run
checkCollisions_NoReturn(p, obs, ms, e, active) ==
    LET o == CheckObstacles(p, obs, 1)
        m == CheckMelinjos(p, ms, e, 1)
    IN  [obstacles |-> o.obstacles, melinjos |-> m.melinjos,
         energy |-> m.energy,
         gameActive |-> IF o.hit \/ p.y > CANVAS_HEIGHT THEN FALSE
                                                         ELSE active]

\* checkCollisions: the obstacles, pickups, energy and gameActive it leaves
checkCollisions(p, obs, ms, e, active) ==
    LET o == CheckObstacles(p, obs, 1)
    IN  IF o.hit
        THEN [obstacles |-> o.obstacles, melinjos |-> ms, energy |-> e,
              gameActive |-> FALSE]
        ELSE LET m == CheckMelinjos(p, ms, e, 1)
             IN  [obstacles |-> o.obstacles, melinjos |-> m.melinjos,
                  energy |-> m.energy,
                  gameActive |-> IF p.y > CANVAS_HEIGHT THEN FALSE
                                                        ELSE active]

\* ------------------------------------------------------------------------
\* Game clock
\* ------------------------------------------------------------------------
\* one second of gameTime
Second == 2 ^ TimeBits

\* deltaTime / 1000: milliseconds to seconds, rounded to the nearest
\* representable value
toSeconds(ms) ==
    (ms \div 1000) * Second + ((ms % 1000) * Second + 500) \div 1000

\* a time-up test that never fires
TimeUp_Never(t) == FALSE

\* the time-up test with > in place of >=
TimeUp_Strict(t) == t > GAME_DURATION * Second

\* the time-up test of gameLoop
TimeUp(t) == t >= GAME_DURATION * Second

\* the text drawGameOver puts on the end screen
drawGameOver(t) ==
    IF t >= GAME_DURATION * Second THEN "Level Complete!" ELSE "Game Over"

\* ------------------------------------------------------------------------
\* Initial state: window.onload has run
\* ------------------------------------------------------------------------
Init ==
    /\ player = InitialPlayer
    /\ \E s \in ObstacleStreams : obstacles = generateObstacles(s)
    /\ \E s \in MelinjoStreams : melinjos = generateMelinjos(s)
    /\ gameTime = 0
    /\ gameActive = TRUE
    /\ lastTimestamp = 0
    /\ energy = ENERGY_MAX

\* ------------------------------------------------------------------------
\* Actions
\* ------------------------------------------------------------------------
\* a jump event whose handler does not test gameActive
JumpEvent_NoActiveTest ==
    /\ lastTimestamp \in JumpTimes
    /\ LET j == handleJump(player, energy)
       IN  /\ player' = j.player
           /\ energy' = j.energy
    /\ UNCHANGED <<obstacles, melinjos, gameTime, gameActive, lastTimestamp>>

\* an input event that restarts an Ended game in place instead of reloading
JumpEvent_RestartInPlace ==
    /\ lastTimestamp \in JumpTimes
    /\ IF gameActive
       THEN LET j == handleJump(player, energy)
            IN  /\ player' = j.player
                /\ energy' = j.energy
                /\ UNCHANGED gameActive
       ELSE /\ gameActive' = TRUE
            /\ UNCHANGED <<player, energy>>
    /\ UNCHANGED <<obstacles, melinjos, gameTime, lastTimestamp>>

\* A jump input event: Space keydown, touchstart on the canvas or on the
\* jump button.  Every handler calls handleJump only while gameActive.
JumpEvent ==
    /\ lastTimestamp \in JumpTimes
    /\ IF gameActive
       THEN LET j == handleJump(player, energy)
            IN  /\ player' = j.player
                /\ energy' = j.energy
       ELSE UNCHANGED <<player, energy>>
    /\ UNCHANGED <<obstacles, melinjos, gameTime, gameActive, lastTimestamp>>

\* the timestamps the host may pass to the next animation frame
NextTimestamps ==
    {t \in {lastTimestamp + FrameMs} : t <= MaxSmoothTimestamp}
        \cup {t \in LateTimestamps : t > lastTimestamp}

\* gameLoop with the collision check run before the movement updates
gameLoop_CheckFirst(timestamp) ==
    LET deltaTime == timestamp - lastTimestamp
    IN  /\ lastTimestamp' = timestamp
        /\ IF gameActive
           THEN LET t   == gameTime + toSeconds(deltaTime)
                    a   == IF TimeUp(t) THEN FALSE ELSE gameActive
                    c   == checkCollisions(player, obstacles, melinjos,
                                           energy, a)
                IN  /\ gameTime' = t
                    /\ player' = updatePlayer(player)
                    /\ obstacles' = updateObstacles(c.obstacles)
                    /\ melinjos' = updateMelinjos(c.melinjos)
                    /\ energy' = updateEnergy(c.energy)
                    /\ gameActive' = c.gameActive
           ELSE UNCHANGED <<player, obstacles, melinjos, gameTime,
                            gameActive, energy>>

\* gameLoop with gameTime accumulated outside the gameActive test
gameLoop_ClockRunsOn(timestamp) ==
    LET deltaTime == timestamp - lastTimestamp
        t         == gameTime + toSeconds(deltaTime)
    IN  /\ lastTimestamp' = timestamp
        /\ gameTime' = t
        /\ IF gameActive
           THEN LET a   == IF TimeUp(t) THEN FALSE ELSE gameActive
                    p   == updatePlayer(player)
                    obs == updateObstacles(obstacles)
                    ms  == updateMelinjos(melinjos)
                    e   == updateEnergy(energy)
                    c   == checkCollisions(p, obs, ms, e, a)
                IN  /\ player' = p
                    /\ obstacles' = c.obstacles
                    /\ melinjos' = c.melinjos
                    /\ energy' = c.energy
                    /\ gameActive' = c.gameActive
           ELSE UNCHANGED <<player, obstacles, melinjos, gameActive, energy>>

\* gameLoop with lastTimestamp taken from the first frame, so that the
\* first frame's deltaTime is 0
gameLoop_FirstFrameOrigin(timestamp) ==
    LET deltaTime == IF lastTimestamp = 0 THEN 0
                     ELSE timestamp - lastTimestamp
    IN  /\ lastTimestamp' = timestamp
        /\ IF gameActive
           THEN LET t   == gameTime + toSeconds(deltaTime)
                    a   == IF TimeUp(t) THEN FALSE ELSE gameActive
                    p   == updatePlayer(player)
                    obs == updateObstacles(obstacles)
                    ms  == updateMelinjos(melinjos)
                    e   == updateEnergy(energy)
                    c   == checkCollisions(p, obs, ms, e, a)
                IN  /\ gameTime' = t
                    /\ player' = p
                    /\ obstacles' = c.obstacles
                    /\ melinjos' = c.melinjos
                    /\ energy' = c.energy
                    /\ gameActive' = c.gameActive
           ELSE UNCHANGED <<player, obstacles, melinjos, gameTime,
                            gameActive, energy>>

\* One animation frame: gameLoop(timestamp)
gameLoop(timestamp) ==
    LET deltaTime == timestamp - lastTimestamp
    IN  /\ lastTimestamp' = timestamp
        /\ IF gameActive
           THEN LET t   == gameTime + toSeconds(deltaTime)
                    a   == IF TimeUp(t) THEN FALSE ELSE gameActive
                    p   == updatePlayer(player)
                    obs == updateObstacles(obstacles)
                    ms  == updateMelinjos(melinjos)
                    e   == updateEnergy(energy)
                    c   == checkCollisions(p, obs, ms, e, a)
                IN  /\ gameTime' = t
                    /\ player' = p
                    /\ obstacles' = c.obstacles
                    /\ melinjos' = c.melinjos
                    /\ energy' = c.energy
                    /\ gameActive' = c.gameActive
           ELSE UNCHANGED <<player, obstacles, melinjos, gameTime,
                            gameActive, energy>>

Frame == \E timestamp \in NextTimestamps : gameLoop(timestamp)

Next == JumpEvent \/ Frame

Spec == Init /\ [][Next]_vars

\* ------------------------------------------------------------------------
\* The variant src/unnamed/part_000.  Its constants, its window.onload,
\* generateObstacles, generateMelinjos, gameLoop, updatePlayer,
\* updateObstacles, updateMelinjos, updateEnergy and checkCollisions are
\* the same text as in src/game.js; it has no handleJump and no touch
\* listeners: the jump logic is written out in the keydown listener.
\* ------------------------------------------------------------------------
\* the keydown listener with jumpCount incremented before the flying force
\* is computed
part_000_keydown_CountFirst(p, e, active) ==
    IF active
    THEN IF ~p.isJumping
         THEN IF e >= ENERGY_JUMP_COST
              THEN [player |-> [velocityY |-> JUMP_FORCE, isJumping |-> TRUE,
                                jumpCount |-> 1] @@ p,
                    energy |-> e - ENERGY_JUMP_COST]
              ELSE [player |-> p, energy |-> e]
         ELSE IF e >= ENERGY_JUMP_COST
              THEN LET n == p.jumpCount + 1
                       f == -(((-JUMP_FORCE) * FLYING_FORCE_MULTIPLIER)
                                \div (Unit * n))
                   IN  [player |-> [velocityY |-> f, jumpCount |-> n] @@ p,
                        energy |-> e - ENERGY_JUMP_COST]
              ELSE [player |-> p, energy |-> e]
    ELSE [player |-> p, energy |-> e]

\* the keydown listener of part_000 for the Space key: the new player and
\* energy
part_000_keydown(p, e, active) ==
    IF active
    THEN IF ~p.isJumping
         THEN IF e >= ENERGY_JUMP_COST
              THEN [player |-> [velocityY |-> JUMP_FORCE, isJumping |-> TRUE,
                                jumpCount |-> 1] @@ p,
                    energy |-> e - ENERGY_JUMP_COST]
              ELSE [player |-> p, energy |-> e]
         ELSE IF e >= ENERGY_JUMP_COST
              THEN LET f == -(((-JUMP_FORCE) * FLYING_FORCE_MULTIPLIER)
                                \div (Unit * p.jumpCount))
                   IN  [player |-> [velocityY |-> f,
                                    jumpCount |-> p.jumpCount + 1] @@ p,
                        energy |-> e - ENERGY_JUMP_COST]
              ELSE [player |-> p, energy |-> e]
    ELSE [player |-> p, energy |-> e]

\* A jump input event of part_000: Space keydown
part_000_JumpEvent ==
    /\ lastTimestamp \in JumpTimes
    /\ LET j == part_000_keydown(player, energy, gameActive)
       IN  /\ player' = j.player
           /\ energy' = j.energy
    /\ UNCHANGED <<obstacles, melinjos, gameTime, gameActive, lastTimestamp>>

\* One animation frame of part_000
part_000_gameLoop(timestamp) ==
    /\ lastTimestamp' = timestamp
    /\ IF ~gameActive
       THEN UNCHANGED <<player, obstacles, melinjos, gameTime, gameActive,
                        energy>>
       ELSE LET t == gameTime + toSeconds(timestamp - lastTimestamp)
                c == checkCollisions(updatePlayer(player),
                                     updateObstacles(obstacles),
                                     updateMelinjos(melinjos),
                                     updateEnergy(energy),
                                     gameActive /\ ~TimeUp(t))
            IN  /\ gameTime' = t
                /\ player' = updatePlayer(player)
                /\ obstacles' = c.obstacles
                /\ melinjos' = c.melinjos
                /\ energy' = c.energy
                /\ gameActive' = c.gameActive

\* ------------------------------------------------------------------------
\* A run without input: no key or touch event ever arrives, only frames
\* ------------------------------------------------------------------------
NoJumpNext == Frame

NoJumpSpec == Init /\ [][NoJumpNext]_vars

\* ------------------------------------------------------------------------
\* Level generation on its own: the page is loaded, and reloaded
\* ------------------------------------------------------------------------
\* the gap draws of the generation runs (smallest, middle and largest gap)
GenGaps == {0, 500, 999}

\* Random streams of two draws, read alternately: both obstacle types, the
\* extreme sizes and every pair of gap draws.
GenObstacleStreams ==
    { << [type |-> t, width |-> t, height |-> 999 - t, gap |-> g1],
         [type |-> 999 - t, width |-> 999 - t, height |-> t, gap |-> g2] >> :
      t \in {0, 999}, g1 \in GenGaps, g2 \in GenGaps }

GenMelinjoStreams ==
    { << [height |-> h, gap |-> g1], [height |-> 999 - h, gap |-> g2] >> :
      h \in {0, 999}, g1 \in GenGaps, g2 \in GenGaps }

\* the state window.onload leaves, for some stream of random draws
GenInit ==
    /\ player = InitialPlayer
    /\ \E s \in GenObstacleStreams : obstacles = generateObstacles(s)
    /\ \E s \in GenMelinjoStreams : melinjos = generateMelinjos(s)
    /\ gameTime = 0
    /\ gameActive = TRUE
    /\ lastTimestamp = 0
    /\ energy = ENERGY_MAX

\* location.reload(): the page loads again and window.onload generates a
\* new level from new draws
Reload ==
    /\ player' = InitialPlayer
    /\ \E s \in GenObstacleStreams : obstacles' = generateObstacles(s)
    /\ \E s \in GenMelinjoStreams : melinjos' = generateMelinjos(s)
    /\ gameTime' = 0
    /\ gameActive' = TRUE
    /\ lastTimestamp' = 0
    /\ energy' = ENERGY_MAX

GenNext == Reload

GenSpec == GenInit /\ [][GenNext]_vars

\* ------------------------------------------------------------------------
\* Vocabulary of the properties
\* ------------------------------------------------------------------------
\* A step is an animation frame of a running game exactly when it runs in
\* an Active state and moves lastTimestamp (a jump event leaves
\* lastTimestamp alone, and a running game never gets two frames with the
\* same timestamp).
ActiveFrame == gameActive /\ lastTimestamp' # lastTimestamp

\* A step is a jump event that changed something exactly when it is not a
\* frame of a running game and changes the player or the energy.
JumpStep == lastTimestamp' = lastTimestamp /\ <<player, energy>>' # <<player, energy>>

\* the simulation fields
simulation == <<player, obstacles, melinjos, energy, gameTime>>

Min(a, b) == IF a < b THEN a ELSE b
Max(a, b) == IF a > b THEN a ELSE b

\* the boxes overlap in a region of positive width and height
Overlap(p, b) ==
    /\ Min(p.x + p.width, b.x + b.width) - Max(p.x, b.x) > 0
    /\ Min(p.y + p.height, b.y + b.height) - Max(p.y, b.y) > 0

\* the boxes meet, but only along an edge or in a corner
EdgeOnly(p, b) ==
    /\ Min(p.x + p.width, b.x + b.width) - Max(p.x, b.x) >= 0
    /\ Min(p.y + p.height, b.y + b.height) - Max(p.y, b.y) >= 0
    /\ ~Overlap(p, b)

\* ------------------------------------------------------------------------
\* C1  After any sequence of frames, jump events and pickup collections
\*     starting from energy = ENERGY_MAX, 0 <= energy <= ENERGY_MAX.
\* ------------------------------------------------------------------------
C1_EnergyInRange == 0 <= energy /\ energy <= ENERGY_MAX

\* a pickup bonus has been clamped: energy was debited by a jump, and the
\* collection brought it back to the maximum
C1_Witness ==
    /\ energy = ENERGY_MAX
    /\ player.isJumping
    /\ \E k \in DOMAIN melinjos : melinjos[k].collected

\* ------------------------------------------------------------------------
\* C2  (as stated) Once gameActive is false, no simulation field is mutated
\*     by any subsequent update step (physics, scroll, energy refill,
\*     collision/collection check) or by any jump event.  gameActive is
\*     false from the start of the step, or from the clock check of the
\*     step on (the frame's clock check has set it false before the frame's
\*     update steps run).
\* ------------------------------------------------------------------------
C2_FrozenOnceEnded ==
    [][ /\ ~gameActive => UNCHANGED simulation
        /\ (ActiveFrame /\ TimeUp(gameTime'))
              => UNCHANGED <<player, obstacles, melinjos, energy>> ]_vars

\* C2  (amended) Once a frame has finished with gameActive false, no
\*     simulation field is mutated by any later frame or jump event.
C2_FrozenAfterEndedFrame == [][ ~gameActive => UNCHANGED simulation ]_vars

\* frames have been delivered to an Ended game: the clock stopped behind the
\* timestamps
C2_Witness == ~gameActive /\ toSeconds(lastTimestamp) > gameTime + Second

\* ------------------------------------------------------------------------
\* C3  The game starts Active and once gameActive is false it is false in
\*     every later state.
\* ------------------------------------------------------------------------
C3_EndedIsTerminal == (gameActive = TRUE) /\ [][ ~gameActive => ~gameActive' ]_vars

\* a game lost by collision, a long time and a late frame later
C3_Witness ==
    /\ ~gameActive
    /\ gameTime < GAME_DURATION * Second
    /\ lastTimestamp \in LateTimestamps

\* ------------------------------------------------------------------------
\* C4  In an Active frame whose accumulated time is >= GAME_DURATION at the
\*     clock check (exactly 30.0 s included) the game becomes Ended with win
\*     framing, also when an obstacle collision is detected in that frame.
\* ------------------------------------------------------------------------
C4_TimeUpWins ==
    [][ (ActiveFrame
           /\ gameTime + toSeconds(lastTimestamp' - lastTimestamp)
                 >= GAME_DURATION * Second)
          => (~gameActive' /\ drawGameOver(gameTime') = "Level Complete!") ]_vars

\* the game ended by the clock in a frame that also had the player inside
\* an obstacle that was not passed
C4_Witness ==
    /\ ~gameActive
    /\ gameTime >= GAME_DURATION * Second
    /\ \E i \in DOMAIN obstacles :
          ~obstacles[i].passed /\ Overlap(player, obstacles[i])

\* ------------------------------------------------------------------------
\* C5  In an Active frame with elapsed time < GAME_DURATION, if after the
\*     movement updates the player's box overlaps an obstacle not marked
\*     passed, the game becomes Ended with loss framing in that frame, and
\*     the check stops at the first such obstacle: no later obstacle is
\*     marked passed and no pickup is collected (energy gets the refill
\*     only).
\* ------------------------------------------------------------------------
C5_Hits ==
    {i \in DOMAIN obstacles :
        ~obstacles[i].passed /\ Overlap(player', obstacles'[i])}

C5_CollisionLoses ==
    [][ (ActiveFrame /\ gameTime' < GAME_DURATION * Second /\ C5_Hits # {})
          => LET first == CHOOSE i \in C5_Hits : \A j \in C5_Hits : i <= j
             IN  /\ ~gameActive'
                 /\ drawGameOver(gameTime') = "Game Over"
                 /\ \A j \in DOMAIN obstacles :
                       j > first => obstacles'[j].passed = obstacles[j].passed
                 /\ \A k \in DOMAIN melinjos :
                       melinjos'[k].collected = melinjos[k].collected
                 /\ energy' = updateEnergy(energy) ]_vars

\* the game was lost in a frame in which the player was also inside a pickup,
\* which stays uncollected
C5_Witness ==
    /\ ~gameActive
    /\ gameTime < GAME_DURATION * Second
    /\ \E k \in DOMAIN melinjos :
          ~melinjos[k].collected /\ Overlap(player, melinjos[k])

\* ------------------------------------------------------------------------
\* C6  A jump event arriving when energy < ENERGY_JUMP_COST changes no state
\*     at all; a jump event arriving while Active with energy >=
\*     ENERGY_JUMP_COST sets an upward velocity impulse, updates the jump
\*     state and decreases energy by exactly ENERGY_JUMP_COST.
\* ------------------------------------------------------------------------
C6_JumpGate ==
    [][ (lastTimestamp' = lastTimestamp)
          => IF gameActive /\ energy >= ENERGY_JUMP_COST
             THEN /\ energy' = energy - ENERGY_JUMP_COST
                  /\ player'.velocityY < 0
                  /\ ~player.isJumping => player'.velocityY = JUMP_FORCE
                  /\ player'.isJumping
                  /\ player'.jumpCount =
                        IF player.isJumping THEN player.jumpCount + 1 ELSE 1
                  /\ player'.y = player.y
                  /\ UNCHANGED <<obstacles, melinjos, gameTime, gameActive>>
             ELSE UNCHANGED vars ]_vars

\* a running game with the player on the ground, too little energy for the
\* initial jump, at a moment a jump event arrives
C6_Witness ==
    /\ gameActive
    /\ ~player.isJumping
    /\ energy < ENERGY_JUMP_COST
    /\ lastTimestamp \in JumpTimes

\* ------------------------------------------------------------------------
\* C7  After every frame update player.y <= the ground line (310), and in a
\*     frame where the integrated position reaches or passes the ground
\*     line the player is snapped to it with velocityY = 0, isJumping =
\*     false and jumpCount = 0.
\* ------------------------------------------------------------------------
C7_GroundLine == CANVAS_HEIGHT - GROUND_HEIGHT - PLAYER_HEIGHT

C7_GroundClamp ==
    /\ C7_GroundLine = 310 * Unit
    /\ player.y <= C7_GroundLine
    /\ [][ /\ player'.y <= C7_GroundLine
           /\ (ActiveFrame
                 /\ player.y + player.velocityY + GRAVITY >= C7_GroundLine)
                 => /\ player'.y = C7_GroundLine
                    /\ player'.velocityY = 0
                    /\ ~player'.isJumping
                    /\ player'.jumpCount = 0 ]_vars

\* the player has jumped and landed again in a running game
C7_Witness ==
    /\ gameActive
    /\ lastTimestamp > 0
    /\ energy < ENERGY_MAX
    /\ player.y = C7_GroundLine
    /\ player.velocityY = 0
    /\ ~player.isJumping

\* ------------------------------------------------------------------------
\* C8  The intersection tests are strict on all four sides: when the
\*     player's box and an entity's box only share an edge, no collision
\*     loss is triggered and no pickup is collected.
\* ------------------------------------------------------------------------
C8_TouchingIsNoContact ==
    [][ ActiveFrame
          => /\ ( /\ gameTime' < GAME_DURATION * Second
                  /\ \E i \in DOMAIN obstacles :
                        ~obstacles[i].passed
                           /\ EdgeOnly(player', obstacles'[i])
                  /\ \A i \in DOMAIN obstacles :
                        ~obstacles[i].passed
                           => ~Overlap(player', obstacles'[i]) )
                   => gameActive'
             /\ \A k \in DOMAIN melinjos :
                   EdgeOnly(player', melinjos'[k])
                      => melinjos'[k].collected = melinjos[k].collected ]_vars

\* after a frame of a running game the player's box shares an edge with an
\* obstacle and with an uncollected pickup
C8_Witness ==
    /\ gameActive
    /\ \E i \in DOMAIN obstacles :
          ~obstacles[i].passed /\ EdgeOnly(player, obstacles[i])
    /\ \E k \in DOMAIN melinjos :
          ~melinjos[k].collected /\ EdgeOnly(player, melinjos[k])

\* ------------------------------------------------------------------------
\* C9  From energy = 100 with no frame in between, exactly 5 consecutive
\*     jump events are accepted, leaving energy 80, 60, 40, 20, 0, and every
\*     further one is rejected; each accepted event debits the energy and
\*     overwrites velocityY.
\* ------------------------------------------------------------------------
C9_FiveJumps ==
    lastTimestamp = 0
       => \E n \in 0..5 :
             /\ energy = (100 - 20 * n) * Unit
             /\ player.jumpCount = n
             /\ player.isJumping = (n > 0)
             /\ player.velocityY =
                   IF n = 0 THEN 0
                   ELSE IF n = 1 THEN -15 * Unit
                   ELSE -((15 * Unit) \div (2 * (n - 1)))

\* the fifth jump event before the first frame has been accepted
C9_Witness ==
    /\ lastTimestamp = 0
    /\ energy = 0
    /\ player.jumpCount = 5

\* ------------------------------------------------------------------------
\* C10 An accepted jump event while the player is already jumping sets
\*     velocityY to JUMP_FORCE * FLYING_FORCE_MULTIPLIER / jumpCount (the
\*     jumpCount before the increment) and then increments jumpCount, so
\*     the magnitudes of successive flying impulses of one airborne phase
\*     strictly decrease (7.5, 3.75, 2.5, ...).
\* ------------------------------------------------------------------------
\* m is the magnitude 7.5 / n on the fixed-point grid
C10_IsImpulse(m, n) ==
    /\ m * n * Unit <= (-JUMP_FORCE) * FLYING_FORCE_MULTIPLIER
    /\ (-JUMP_FORCE) * FLYING_FORCE_MULTIPLIER < (m + 1) * n * Unit

C10_FlyingImpulse ==
    [][ (JumpStep /\ player.isJumping)
          => LET n == player.jumpCount
                 m == -player'.velocityY
             IN  /\ n >= 1
                 /\ C10_IsImpulse(m, n)
                 /\ player'.jumpCount = n + 1
                 /\ n = 1 => m = 7500
                 /\ n = 2 => m = 3750
                 /\ n = 3 => m = 2500
                 /\ n >= 2 => \A q \in m..(-JUMP_FORCE) :
                                 C10_IsImpulse(q, n - 1) => m < q ]_vars

\* the third flying impulse of an airborne phase has just been applied
C10_Witness ==
    /\ player.isJumping
    /\ player.jumpCount = 4
    /\ player.velocityY = -2500

\* ------------------------------------------------------------------------
\* C11 For every choice of the random gaps generateObstacles and
\*     generateMelinjos terminate, every generated obstacle and pickup has
\*     its initial x within [800, 9800 + 800], the first entity of each
\*     sequence is at x = 800 and x is strictly ascending in insertion
\*     order.  (Checked in the states window.onload leaves, GenSpec.)
\* ------------------------------------------------------------------------
C11_Placed(seq, minGap) ==
    /\ Len(seq) >= 1
    /\ (Len(seq) - 1) * minGap < 9000 * Unit
    /\ seq[1].x = 800 * Unit
    /\ \A i \in DOMAIN seq :
          /\ seq[i].x >= 800 * Unit
          /\ seq[i].x <= (9800 + 800) * Unit
          /\ i > 1 => seq[i - 1].x < seq[i].x

C11_GeneratedInRange ==
    /\ C11_Placed(obstacles, 300 * Unit)
    /\ C11_Placed(melinjos, 200 * Unit)

\* the densest level: every gap draw is the smallest, 30 obstacles 300 apart
\* and 45 pickups 200 apart
C11_Witness ==
    /\ Len(obstacles) = 30
    /\ Len(melinjos) = 45
    /\ obstacles[30].x = (800 + 29 * 300) * Unit
    /\ melinjos[45].x = (800 + 44 * 200) * Unit

\* ------------------------------------------------------------------------
\* C12 In an Active frame without an obstacle collision every pickup that
\*     is not yet collected and strictly overlaps the player is marked
\*     collected and adds 30 energy, clamped to ENERGY_MAX (however many
\*     are collected in the frame); the collected flag never reverts, and
\*     energy rises above the refill only in a step that collects, so each
\*     pickup grants its bonus at most once.
\* ------------------------------------------------------------------------
C12_Due ==
    {k \in DOMAIN melinjos :
        ~melinjos[k].collected /\ Overlap(player', melinjos'[k])}

C12_Collected ==
    {k \in DOMAIN melinjos :
        ~melinjos[k].collected /\ melinjos'[k].collected}

C12_PickupsCollectedOnce ==
    [][ /\ \A k \in DOMAIN melinjos :
              melinjos[k].collected => melinjos'[k].collected
        /\ (ActiveFrame /\ C5_Hits = {})
              => /\ C12_Collected = C12_Due
                 /\ energy' = Min(ENERGY_MAX,
                                  Min(ENERGY_MAX, energy + ENERGY_REFILL_RATE)
                                     + 30 * Unit * Cardinality(C12_Due))
        /\ C12_Collected = {} => energy' <= energy + ENERGY_REFILL_RATE
      ]_vars

\* a running game in which a pickup has been collected without filling the
\* energy up, the player still inside the collected pickup
C12_Witness ==
    /\ gameActive
    /\ energy < ENERGY_MAX - 30 * Unit
    /\ \E k \in DOMAIN melinjos :
          melinjos[k].collected /\ Overlap(player, melinjos[k])

\* ------------------------------------------------------------------------
\* C13 In every frame that starts Active the steps run in the order clock
\*     advance and time-up check, player physics, scroll, energy refill,
\*     collision check: collisions and collections are evaluated against
\*     the positions after that frame's physics and scroll, and the pickup
\*     bonus is applied after that frame's refill (a collision leaves the
\*     refill only).  In a frame that starts Ended none of the steps run.
\* ------------------------------------------------------------------------
C13_FrameOrder ==
    [][ /\ ActiveFrame
           => LET v      == player.velocityY + GRAVITY
                  y      == player.y + v
                  landed == y >= 310 * Unit
                  refill == Min(ENERGY_MAX, energy + ENERGY_REFILL_RATE)
                  hit    == \E i \in DOMAIN obstacles :
                               ~obstacles[i].passed
                                  /\ Overlap(player', obstacles'[i])
                  due    == {k \in DOMAIN melinjos :
                               ~melinjos[k].collected
                                  /\ Overlap(player', melinjos'[k])}
              IN  /\ gameTime' =
                        gameTime + toSeconds(lastTimestamp' - lastTimestamp)
                  /\ player'.y = IF landed THEN 310 * Unit ELSE y
                  /\ player'.velocityY = IF landed THEN 0 ELSE v
                  /\ \A i \in DOMAIN obstacles :
                        obstacles'[i].x = obstacles[i].x - SCROLL_SPEED
                  /\ \A k \in DOMAIN melinjos :
                        melinjos'[k].x = melinjos[k].x - SCROLL_SPEED
                  /\ gameActive' = (gameTime' < GAME_DURATION * Second /\ ~hit)
                  /\ \A k \in DOMAIN melinjos :
                        melinjos'[k].collected =
                           (melinjos[k].collected \/ (~hit /\ k \in due))
                  /\ energy' = IF hit THEN refill
                               ELSE Min(ENERGY_MAX,
                                        refill + 30 * Unit * Cardinality(due))
        /\ ~gameActive => UNCHANGED simulation ]_vars

\* the state right after the frame that lost the game, with the player
\* inside an obstacle that it did not overlap before that frame's scroll
C13_Witness ==
    /\ ~gameActive
    /\ gameTime < GAME_DURATION * Second
    /\ \E i \in DOMAIN obstacles :
          /\ Overlap(player, obstacles[i])
          /\ ~Overlap(player,
                      [obstacles[i] EXCEPT !.x = @ + SCROLL_SPEED])

\* ------------------------------------------------------------------------
\* C14 In every reachable state isJumping is true if and only if
\*     jumpCount >= 1, so the divisor of the flying impulse is >= 1 for any
\*     interleaving of jump events and frames.
\* ------------------------------------------------------------------------
C14_JumpingIffCounted ==
    /\ player.jumpCount >= 0
    /\ player.isJumping <=> player.jumpCount >= 1

\* a flying impulse has divided by jumpCount, frames later in the same
\* airborne phase
C14_Witness ==
    /\ player.isJumping
    /\ player.jumpCount >= 2
    /\ lastTimestamp > 0
    /\ player.velocityY > 0

\* ------------------------------------------------------------------------
\* C15 The fall-off condition player.y > CANVAS_HEIGHT is false whenever
\*     checkCollisions evaluates it, so the game is never ended by the
\*     fall-off check: only time-up and an obstacle collision end it.
\* ------------------------------------------------------------------------
C15_NoFallOff ==
    /\ player.y <= 400 * Unit
    /\ [][ /\ player'.y <= 400 * Unit
           /\ (gameActive /\ ~gameActive')
                 => \/ gameTime' >= GAME_DURATION * Second
                    \/ \E i \in DOMAIN obstacles :
                          ~obstacles[i].passed
                             /\ Overlap(player', obstacles'[i]) ]_vars

\* a game lost in mid-air
C15_Witness ==
    /\ ~gameActive
    /\ gameTime < GAME_DURATION * Second
    /\ player.isJumping
    /\ player.y < 310 * Unit

\* ------------------------------------------------------------------------
\* C16 The passed flag of an obstacle only goes from unset to true, it is
\*     set only when the obstacle's right edge is strictly left of the
\*     player's left edge, and from then on the obstacle never intersects
\*     the player; skipping passed obstacles therefore never suppresses a
\*     collision (the outcome is the same with and without the guard).
\* ------------------------------------------------------------------------
C16_PassedIsBehind ==
    [][ /\ \A i \in DOMAIN obstacles :
              /\ obstacles[i].passed => obstacles'[i].passed
              /\ obstacles'[i].passed
                    => /\ obstacles'[i].x + obstacles'[i].width < player'.x
                       /\ ~Overlap(player', obstacles'[i])
        /\ ActiveFrame
              => ( (\E i \in DOMAIN obstacles :
                       Overlap(player', obstacles'[i]))
                   <=> (\E i \in DOMAIN obstacles :
                          ~obstacles[i].passed
                             /\ Overlap(player', obstacles'[i])) ) ]_vars

\* a running game whose first obstacle has been jumped over and marked
C16_Witness ==
    /\ gameActive
    /\ obstacles[1].passed
    /\ ~obstacles[2].passed

\* ------------------------------------------------------------------------
\* C17 In every Active frame the x of every obstacle and every pickup
\*     decreases by exactly SCROLL_SPEED, while their y, width and height
\*     never change and no entity is ever removed from or added to the two
\*     sequences.
\* ------------------------------------------------------------------------
C17_Still(a, b) ==
    /\ a.y = b.y
    /\ a.width = b.width
    /\ a.height = b.height

C17_ScrollOnly ==
    [][ /\ Len(obstacles') = Len(obstacles)
        /\ Len(melinjos') = Len(melinjos)
        /\ \A i \in DOMAIN obstacles :
              /\ C17_Still(obstacles'[i], obstacles[i])
              /\ obstacles'[i].x =
                    IF ActiveFrame THEN obstacles[i].x - 5 * Unit
                                   ELSE obstacles[i].x
        /\ \A k \in DOMAIN melinjos :
              /\ C17_Still(melinjos'[k], melinjos[k])
              /\ melinjos'[k].x =
                    IF ActiveFrame THEN melinjos[k].x - 5 * Unit
                                   ELSE melinjos[k].x ]_vars

\* a running game after the frame in which the first obstacle left the
\* player behind: all entities are still there and still scrolling
C17_Witness ==
    /\ gameActive
    /\ obstacles[1].x + obstacles[1].width < PLAYER_X - SCROLL_SPEED
    /\ melinjos[1].x = obstacles[1].x
    /\ Len(obstacles) = 16
    /\ Len(melinjos) = 16

\* ------------------------------------------------------------------------
\* C18  The framing of an Ended game is fixed at the frame that ended it:
\*      once Ended, no step changes gameTime, so the text drawGameOver
\*      picks never changes, however far the frame timestamps advance; a
\*      game lost before GAME_DURATION keeps the loss framing.
\* ------------------------------------------------------------------------
C18_FramingFixed ==
    [][ ~gameActive => /\ gameTime' = gameTime
                       /\ drawGameOver(gameTime') = drawGameOver(gameTime)
      ]_vars

\* a game lost by collision, still framed as a loss by a frame whose
\* timestamp is past the duration
C18_Witness ==
    /\ ~gameActive
    /\ gameTime > 0
    /\ gameTime < GAME_DURATION * Second
    /\ drawGameOver(gameTime) = "Game Over"
    /\ lastTimestamp > GAME_DURATION * 1000

C21_NoJumpLoses ==
    /\ player = InitialPlayer
    /\ gameActive => obstacles[1].x >= PLAYER_X + PLAYER_WIDTH
    /\ obstacles[1].x >= PLAYER_X + PLAYER_WIDTH - SCROLL_SPEED
    /\ (~gameActive /\ gameTime < GAME_DURATION * Second)
          => /\ obstacles[1].x = LEVEL_START - 131 * SCROLL_SPEED
             /\ Overlap(player, obstacles[1])
             /\ drawGameOver(gameTime) = "Game Over"

\* the run without input lost in its 131st frame, before the time was up
C21_Witness ==
    /\ ~gameActive
    /\ player = InitialPlayer
    /\ energy = ENERGY_MAX
    /\ obstacles[1].x = LEVEL_START - 131 * SCROLL_SPEED
    /\ gameTime = 131 * toSeconds(FrameMs)

\* ------------------------------------------------------------------------
\* C22  A pickup can only be collected while the player is airborne: the
\*      bottom edge of every generated pickup is at most 270, so a player
\*      standing on the ground (y = 310, isJumping false) intersects no
\*      pickup, and every step in which a collected flag becomes true
\*      ends with isJumping true and player.y < 270.
\* ------------------------------------------------------------------------
C22_AirborneToCollect ==
    /\ [](\A k \in DOMAIN melinjos :
            /\ melinjos[k].y + melinjos[k].height <= 270 * Unit
            /\ (player.y = 310 * Unit /\ ~player.isJumping)
                  => ~Overlap(player, melinjos[k]))
    /\ [][ (\E k \in DOMAIN melinjos :
               ~melinjos[k].collected /\ melinjos'[k].collected)
            => (player'.isJumping /\ player'.y < 270 * Unit)
       ]_vars

\* a pickup collected by a player in the air, above the pickup's bottom
\* edge, while a player on the ground is standing in the same column
C22_Witness ==
    \E k \in DOMAIN melinjos :
        /\ melinjos[k].collected
        /\ player.isJumping
        /\ player.jumpCount >= 1
        /\ player.y < melinjos[k].y + melinjos[k].height
        /\ player.y + player.height > melinjos[k].y
        /\ melinjos[k].x < PLAYER_X + PLAYER_WIDTH
        /\ melinjos[k].x + melinjos[k].width > PLAYER_X

====
